---- MODULE Spec2Model ----
(***************************************************************************)
(* Model of the decorator registry of JWLee89/pojang: the Pojang and Yeezy *)
(* classes (src/src/pojang/app.py, src/src/yeezy/app.py), the helpers of   *)
(* src/src/pojang/helper/util.py and the standalone trace decorator of     *)
(* src/src/experiment/util.py.                                             *)
(*                                                                         *)
(* Python values are records [kind, id, items]: a list compares by its     *)
(* items, an object of a class without __eq__ compares by identity (id),   *)
(* an int compares by value, and inspect.Parameter.empty is one object.    *)
(***************************************************************************)
EXTENDS Integers, Sequences, FiniteSets, TLC

VARIABLES
    functions,  \* Pojang.functions: OrderedDict name -> entry, in insertion order
    wrappers,   \* the wrapper callables returned so far by trace / stopwatch
    calls,      \* calls[i]: completed calls of wrappers[i]
    config,     \* Pojang.config
    out,        \* what the last operation on the registry did
    defaults,   \* the default objects of the parameters of the traced / pure function
    count,      \* count[func] of the standalone trace decorator
    pout,       \* what the last call of the pure / trace wrapper did
    fwrapped,   \* the closure of the wrapper fire_if returned: events_to_fire, predicate
    fout,       \* what the last call of the fire_if wrapper did
    oout,       \* what the last application of observe did
    profiler,   \* Pojang._profiler: whether the cProfile.Profile is enabled
    failed,     \* calls of wrappers that ended with an exception
    rwrapped,   \* the closure of the wrapper run_before returned: functions
    rout,       \* what the last call of the run_before wrapper did
    stack,      \* the profile-wrapped calls control is inside of, outermost first
    function_map, \* the dictionary given to register
    custom,     \* Pojang.custom / Yeezy.custom
    time_dict,  \* Pojang.time_dict
    now,        \* time.time()
    tc          \* a TimeComputer instance

regVars == <<functions, wrappers, calls, config, out>>

argVars == <<defaults, count, pout>>

fireVars == <<fwrapped, fout>>

beforeVars == <<rwrapped, rout>>

auxVars == <<stack, function_map, custom, time_dict, now, tc>>

extVars == <<profiler, failed, rwrapped, rout, stack, function_map, custom, time_dict,
             now, tc>>

vars == <<functions, wrappers, calls, config, out, defaults, count, pout, fwrapped, fout,
          oout, profiler, failed, rwrapped, rout, stack, function_map, custom,
          time_dict, now, tc>>

(***************************************************************************)
(* Bounds of the model.                                                    *)
(***************************************************************************)
MaxWraps == 2       \* wrap operations (trace / stopwatch) per behaviour
MaxCalls == 2       \* calls of wrapped functions per behaviour
MaxDur == 2         \* longest duration of a function body, in clock ticks
MaxLen == 2         \* longest list a function body grows by appending
MaxTraced == 1      \* calls of the standalone trace wrapper per behaviour
MaxEvents == 2      \* longest list of events given to fire_if
MaxArr == 2         \* longest list passed to a fire_if-wrapped function
MaxProps == 2       \* longest list of properties given to observe
MaxDepth == 2       \* profile-wrapped calls, or timed blocks, in progress at once
MaxClock == 3       \* latest reading of the clock
MaxBlocks == 3      \* timed blocks entered on one TimeComputer

(***************************************************************************)
(* Function objects and identity resolution.                               *)
(***************************************************************************)
\* Three function objects; "f2" is a redefinition of "f" under the same name.
BaseFuncs == {"f", "f2", "g"}

\* func.__module__ + "." + func.__qualname__ of the function objects
QualName(b) == IF b = "g" THEN "m.g" ELSE "m.f"

\* A callable: a function object under the wrappers put around it, innermost
\* first.  functools.wraps copies __module__ and __qualname__ to the wrapper.
Base(b) == [base |-> b, layers |-> <<>>]

get_unique_func_name(func) == QualName(func.base)

(***************************************************************************)
(* Statistics objects (src/pojang/helper/properties.py is not in the       *)
(* sources: an aggregate that counts the updates it receives).             *)
(***************************************************************************)
Statistics(func) == [kind |-> "Statistics", func |-> func, updates |-> 0]

TimeStatistics(func) == [kind |-> "TimeStatistics", func |-> func, updates |-> 0]

props_update(props) == [props EXCEPT !.updates = @ + 1]

(***************************************************************************)
(* The registry.                                                           *)
(***************************************************************************)
Names(fns) == {fns[i].name : i \in DOMAIN fns}

IndexOf(fns, name) == CHOOSE i \in DOMAIN fns : fns[i].name = name

\* A value given for an option, by what the code looks at: type(value) and
\* its truth value
PyVal(type, truthy) == [type |-> type, truthy |-> truthy]

Bool(b) == PyVal("bool", b)

\* True, False, 5, 0, 'yes'
OptionValues == {Bool(TRUE), Bool(FALSE), PyVal("int", TRUE), PyVal("int", FALSE),
                 PyVal("str", TRUE)}

\* Pojang.DEFAULT_CONFIGS
DEFAULT_CONFIGS == [debug |-> Bool(FALSE), inspect_mode |-> 1, log_path |-> "None"]

\* Pojang.get_new_configs: a copy of the defaults overridden with the arguments
get_new_configs(debug, inspect_mode, log_path) ==
    [DEFAULT_CONFIGS EXCEPT !.debug = debug, !.inspect_mode = inspect_mode,
                            !.log_path = log_path]

\* log_debug: a line reaches the log sink only in debug mode (if self.debug)
log_debug(cfg, msg) == IF cfg.debug.truthy THEN <<[level |-> "DEBUG", msg |-> msg]>> ELSE <<>>

\* self.log: unconditional
log(msg) == <<[level |-> "LOG", msg |-> msg]>>

\* _update_decoration_info, the dictionary it leaves; an entry has no
\* 'input' key until stopwatch sets it (input = <<>>).
update_decoration_info_always(fns, func_name, func, props) ==
    Append(fns, [name |-> func_name, func |-> func, props |-> props, input |-> <<>>])

\* (a dictionary that re-inserts a key it already holds, moving it to the end)
update_decoration_info_reinsert(fns, func_name, func, props) ==
    IF func_name \in Names(fns)
    THEN SelectSeq(fns, LAMBDA entry : entry.name # func_name)
         \o <<fns[IndexOf(fns, func_name)]>>
    ELSE Append(fns, [name |-> func_name, func |-> func, props |-> props,
                      input |-> <<>>])

update_decoration_info(fns, func_name, func, props) ==
    IF func_name \in Names(fns)
    THEN fns
    ELSE Append(fns, [name |-> func_name, func |-> func, props |-> props,
                      input |-> <<>>])

\* _update_decoration_info, the lines it logs
update_decoration_log(cfg, fns, func_name) ==
    IF func_name \in Names(fns)
    THEN log_debug(cfg, "Found duplicate decorator with identity")
    ELSE <<>>

\* self.functions[func_name][API_KEYS.STATS_INPUT] = value
set_input(fns, func_name, value) ==
    [fns EXCEPT ![IndexOf(fns, func_name)].input = <<value>>]

Targets == {Base(b) : b \in BaseFuncs} \cup {wrappers[i] : i \in DOMAIN wrappers}

\* TimeComputer.__init__: log_interval: int = 1
log_interval == 1

\* TimeComputer.__init__(accumulated_time=[]): no block entered yet.  open is
\* not a field of the object: it lists the enter times of the blocks control
\* is inside of, innermost last.
TimeComputer == [start_time |-> <<>>, run_count |-> 0, accumulated_time |-> <<>>,
                 open |-> <<>>, measured |-> <<>>]

\* The two classes with the registration interface
Classes == {"Pojang", "Yeezy"}

\* Keys of the dictionaries: a str ([fn |-> func] is a function object used
\* as a key)
StrKey(s) == [str |-> s]

\* A dict is the sequence of its items in insertion order.  key in d:
dict_has(d, key) == \E k \in DOMAIN d : d[k].key = key

\* d[key] = value: a present key keeps its place and takes the value, an
\* absent one goes last
dict_set(d, key, value) ==
    IF dict_has(d, key)
    THEN [k \in DOMAIN d |-> IF d[k].key = key THEN [key |-> key, value |-> value] ELSE d[k]]
    ELSE Append(d, [key |-> key, value |-> value])

\* __init__ of either class: custom and time_dict are empty (custom is kept
\* per class, one instance of each); no call is in progress, nothing has been
\* given to register, the clock starts at 0
InitAux ==
    /\ stack = <<>>
    /\ function_map = <<>>
    /\ custom = [cls \in Classes |-> <<>>]
    /\ time_dict = <<>>
    /\ now = 0
    /\ tc = TimeComputer

\* Pojang.__init__ / Yeezy.__init__ with a debug argument of debugs, the
\* default inspection mode and no log file: the constructor stores the
\* arguments as they are and raises nothing
InitRegistry(debugs) ==
    /\ functions = <<>>
    /\ wrappers = <<>>
    /\ calls = <<>>
    /\ \E d \in debugs :
          /\ config = get_new_configs(d, 1, "None")
          /\ out = [op |-> "init", err |-> "none", value |-> d,
                    before |-> DEFAULT_CONFIGS]
    /\ profiler = [active |-> FALSE]
    /\ failed = 0
    /\ rwrapped = <<>>
    /\ rout = [op |-> "init"]
    /\ InitAux

\* Pojang.trace(...)(func) / Yeezy.trace(...)(func).  hasContext: whether the
\* caller's frame has source lines (inspect.stack()[1].code_context); without
\* them code_context is None and subscripting it raises TypeError.
Trace(func, hasContext) ==
    LET func_name == get_unique_func_name(func)
        lines == log_debug(config, "Decorated function with unique id")
                 \o update_decoration_log(config, functions, func_name)
    IN  /\ Len(wrappers) < MaxWraps
        /\ functions' = update_decoration_info(functions, func_name, func, Statistics(func))
        /\ IF hasContext
           THEN /\ wrappers' = Append(wrappers, [func EXCEPT !.layers = Append(@, "trace")])
                /\ calls' = Append(calls, 0)
                /\ out' = [op |-> "trace", name |-> func_name, err |-> "none",
                           dup |-> func_name \in Names(functions), log |-> lines]
           ELSE /\ UNCHANGED <<wrappers, calls>>
                /\ out' = [op |-> "trace", name |-> func_name, err |-> "TypeError",
                           dup |-> func_name \in Names(functions), log |-> lines]
        /\ UNCHANGED <<config, argVars, fireVars, oout, extVars>>

\* Pojang.stopwatch(func) / Yeezy.time(func): decorator(func)
Stopwatch(func) ==
    LET func_name == get_unique_func_name(func)
        lines == log("Decorated function with unique id")
                 \o update_decoration_log(config, functions, func_name)
        registered == update_decoration_info(functions, func_name, func,
                                             TimeStatistics(func))
    IN  /\ Len(wrappers) < MaxWraps
        /\ functions' = set_input(registered, func_name, 0)
        /\ wrappers' = Append(wrappers, [func EXCEPT !.layers = Append(@, "stopwatch")])
        /\ calls' = Append(calls, 0)
        /\ out' = [op |-> "stopwatch", name |-> func_name, err |-> "none",
                   dup |-> func_name \in Names(functions), log |-> lines]
        /\ UNCHANGED <<config, argVars, fireVars, oout, extVars>>

\* One layer of a wrapper returning.  st.elapsed is the time the layer below
\* took: stopwatch's wrapper stores it in the entry's input slot, updates the
\* statistics with it and takes e more ticks itself; trace's wrapper only
\* passes the call on.  st.last is the duration the latest stopwatch layer
\* measured.
layer_return(st, func_name, layer, e) ==
    IF layer = "stopwatch"
    THEN LET i == IndexOf(st.fns, func_name)
         IN  [fns |-> [st.fns EXCEPT ![i].input = <<st.elapsed>>,
                                     ![i].props = props_update(@)],
              elapsed |-> st.elapsed + e,
              last |-> <<st.elapsed>>]
    ELSE st

\* The layers of a wrapper returning, innermost first
RECURSIVE run_layers(_, _, _, _, _)
run_layers(st, func_name, layers, k, e) ==
    IF k > Len(layers)
    THEN st
    ELSE run_layers(layer_return(st, func_name, layers[k], e), func_name, layers,
                    k + 1, e)

TotalCalls == IF calls = <<>> THEN 0
              ELSE LET RECURSIVE Sum(_)
                       Sum(k) == IF k = 0 THEN 0 ELSE calls[k] + Sum(k - 1)
                   IN  Sum(Len(calls))

\* Pojang.analyze / Yeezy.analyze: the lines it writes to the log sink, the
\* items of time_dict and of functions in the order the dictionaries list them
analyze_lines(td, fns) ==
    log("Printing time-related functions ... ") \o log("-")
    \o [k \in DOMAIN td |-> [level |-> "LOG", msg |-> "Function", name |-> td[k].name]]
    \o log("-") \o log("Printing registered functions") \o log("-")
    \o [k \in DOMAIN fns |-> [level |-> "LOG", msg |-> "Function", name |-> fns[k].name]]
    \o log("-")

Analyze ==
    /\ out' = [op |-> "analyze", err |-> "none", log |-> analyze_lines(time_dict, functions)]
    /\ UNCHANGED <<functions, wrappers, calls, config, argVars, fireVars, oout, extVars>>

\* Pojang.profile(func): the wrapper brackets the call with enable / disable
\* of the instance's profiler; nothing is registered
\* (a profile that registers func as stopwatch does)
Profile_registering(func) ==
    /\ Len(wrappers) < MaxWraps
    /\ functions' = update_decoration_info(functions, get_unique_func_name(func), func,
                                           Statistics(func))
    /\ wrappers' = Append(wrappers, [func EXCEPT !.layers = Append(@, "profile")])
    /\ calls' = Append(calls, 0)
    /\ out' = [op |-> "profile", name |-> get_unique_func_name(func), err |-> "none",
               dup |-> FALSE, log |-> <<>>]
    /\ UNCHANGED <<config, argVars, fireVars, oout, extVars>>

Profile(func) ==
    /\ Len(wrappers) < MaxWraps
    /\ wrappers' = Append(wrappers, [func EXCEPT !.layers = Append(@, "profile")])
    /\ calls' = Append(calls, 0)
    /\ out' = [op |-> "profile", name |-> get_unique_func_name(func), err |-> "none",
               dup |-> FALSE, log |-> <<>>]
    /\ UNCHANGED <<functions, config, argVars, fireVars, oout, extVars>>

HasProfile(layers) == \E k \in DOMAIN layers : layers[k] = "profile"

\* The return value of the function object under a wrapper
func_result(w) == [result_of |-> w.base]

\* A call of wrappers[i] that returns: the body takes d ticks, every stopwatch
\* layer e ticks.  The last disable() of a profile layer leaves the profiler
\* disabled.
Call(i, d, e) ==
    LET w == wrappers[i]
        func_name == get_unique_func_name(w)
        done == run_layers([fns |-> functions, elapsed |-> d, last |-> <<>>],
                           func_name, w.layers, 1, e)
    IN  /\ TotalCalls + failed < MaxCalls
        /\ functions' = done.fns
        /\ calls' = [calls EXCEPT ![i] = @ + 1]
        /\ profiler' = IF HasProfile(w.layers) THEN [active |-> FALSE] ELSE profiler
        /\ out' = [op |-> "call", name |-> func_name, err |-> "none", wrapper |-> i,
                   elapsed |-> done.last, step |-> "none", body |-> TRUE,
                   ret |-> <<func_result(w)>>]
        /\ UNCHANGED <<wrappers, config, argVars, fireVars, oout, failed, beforeVars, auxVars>>

\* time.time() advances
Tick ==
    /\ now < MaxClock
    /\ now' = now + 1
    /\ UNCHANGED <<regVars, argVars, fireVars, oout, profiler, failed, beforeVars, stack,
                   function_map, custom, time_dict, tc>>

\* TimeComputer.__enter__, of a with block or of the inner of a decorated
\* function, also inside a block of the same instance that has not exited
TcEnter ==
    /\ tc.run_count < MaxBlocks
    /\ Len(tc.open) < MaxDepth
    /\ tc' = [tc EXCEPT !.run_count = @ + 1,
                        !.start_time = <<now>>,
                        !.open = Append(@, now)]
    /\ UNCHANGED <<regVars, argVars, fireVars, oout, profiler, failed, beforeVars, stack,
                   function_map, custom, time_dict, now>>

\* TimeComputer.__exit__ of the innermost block: _append_to_list(time_elapsed),
\* then log_callback(accumulated_time, run_count) when the interval divides
\* run_count.  measured gets the time since this block's own enter.
TcExit ==
    LET time_elapsed == now - tc.start_time[1]
        accumulated == Append(tc.accumulated_time, time_elapsed)
    IN  /\ tc.open # <<>>
        /\ tc' = [tc EXCEPT !.accumulated_time = accumulated,
                            !.open = SubSeq(@, 1, Len(@) - 1),
                            !.measured = Append(@, now - tc.open[Len(tc.open)])]
        /\ out' = [op |-> "exit", err |-> "none",
                   log |-> IF tc.run_count % log_interval = 0
                           THEN <<[accumulated_time |-> accumulated,
                                   run_count |-> tc.run_count]>>
                           ELSE <<>>]
        /\ UNCHANGED <<functions, wrappers, calls, config, argVars, fireVars, oout,
                       profiler, failed, beforeVars, stack, function_map, custom,
                       time_dict, now>>

\* def _update_decoration_info(self, func_name, func, props): the parameters
\* after self, none with a default
update_decoration_info_params == <<"func_name", "func", "props">>

\* The parameters a call with the positional arguments given leaves without
\* a value: Python raises TypeError when there is one
missing_arguments(params, given) == {params[k] : k \in (DOMAIN params) \ (DOMAIN given)}

\* Pojang.before(func, stat_updater) / Yeezy.before: it calls
\* self._update_decoration_info(func_name, func) before it builds inner
Before(func, stat_updater) ==
    LET func_name == get_unique_func_name(func)
        given == <<func_name, func>>
        missing == missing_arguments(update_decoration_info_params, given)
    IN  /\ functions' = IF missing = {}
                        THEN update_decoration_info(functions, given[1], given[2], given[3])
                        ELSE functions
        /\ out' = [op |-> "before", name |-> func_name, func |-> func,
                   stat_updater |-> stat_updater,
                   err |-> IF missing = {} THEN "none" ELSE "TypeError",
                   ret |-> IF missing = {}
                           THEN <<[func EXCEPT !.layers = Append(@, "before")]>>
                           ELSE <<>>]
        /\ UNCHANGED <<wrappers, calls, config, argVars, fireVars, oout, extVars>>

\* register(func_name, func, function_map): Pojang looks func_name up, Yeezy
\* looks func up, among the keys of function_map
register(cls, func_name, func, d) ==
    LET absent == IF cls = "Pojang" THEN ~dict_has(d, StrKey(func_name))
                                    ELSE ~dict_has(d, [fn |-> func])
    IN  IF absent THEN dict_set(d, StrKey(func_name), func) ELSE d

Register(cls, func_name, func) ==
    /\ function_map' = register(cls, func_name, func, function_map)
    /\ out' = [op |-> "register", err |-> "none", cls |-> cls, name |-> func_name,
               func |-> func, before |-> function_map]
    /\ UNCHANGED <<functions, wrappers, calls, config, argVars, fireVars, oout, profiler,
                   failed, beforeVars, stack, custom, time_dict, now, tc>>

\* register_decorator(func): what is stored under the name and what is
\* returned.  Pojang stores func, Yeezy stores function_exists
register_decorator(cls, func, d) ==
    LET name == get_unique_func_name(func)
        function_exists == dict_has(d, StrKey(name))
        stored == IF cls = "Pojang" THEN func ELSE Bool(function_exists)
    IN  [custom |-> IF ~function_exists THEN dict_set(d, StrKey(name), stored) ELSE d,
         ret |-> function_exists]

RegisterDecorator(cls, func) ==
    LET r == register_decorator(cls, func, custom[cls])
    IN  /\ custom' = [custom EXCEPT ![cls] = r.custom]
        /\ out' = [op |-> "register_decorator", err |-> "none", cls |-> cls, func |-> func,
                   ret |-> r.ret, before |-> custom[cls]]
        /\ UNCHANGED <<functions, wrappers, calls, config, argVars, fireVars, oout,
                       profiler, failed, beforeVars, stack, function_map, time_dict, now,
                       tc>>

\* The wrappers whose outermost layer is profile's wrapped
IsProfiled(w) == w.layers # <<>> /\ w.layers[Len(w.layers)] = "profile"

\* wrapped(*args, **kwargs) of wrappers[i] starts, from the top level or from
\* the body of the profile-wrapped call in progress: self._profiler.enable(),
\* then the call of func
ProfiledEnter(i) ==
    /\ IsProfiled(wrappers[i])
    /\ Len(stack) < MaxDepth
    /\ stack' = Append(stack, i)
    /\ profiler' = [active |-> TRUE]
    /\ UNCHANGED <<regVars, argVars, fireVars, oout, failed, beforeVars, function_map,
                   custom, time_dict, now, tc>>

\* func returned to the innermost wrapped in progress:
\* self._profiler.disable(), return output
ProfiledReturn ==
    /\ stack # <<>>
    /\ stack' = SubSeq(stack, 1, Len(stack) - 1)
    /\ profiler' = [active |-> FALSE]
    /\ UNCHANGED <<regVars, argVars, fireVars, oout, failed, beforeVars, function_map,
                   custom, time_dict, now, tc>>

\* func raised in the innermost wrapped in progress: the exception leaves
\* wrapped at the call of func, disable() is not reached
ProfiledRaise ==
    /\ stack # <<>>
    /\ stack' = SubSeq(stack, 1, Len(stack) - 1)
    /\ UNCHANGED <<regVars, argVars, fireVars, oout, profiler, failed, beforeVars,
                   function_map, custom, time_dict, now, tc>>

\* The steps of a layer that measure: the statistics update of stopwatch's
\* wrapper, the enable() and disable() of profile's wrapped
MeasurementSteps(layer) ==
    CASE layer = "stopwatch" -> {"update"}
      [] layer = "profile" -> {"enable", "disable"}
      [] OTHER -> {}

\* A call of wrappers[i] in which the measurement step `step` of layer k
\* raises.  No wrapper has a try statement: the exception leaves every layer
\* above k at the line that called the layer below.  The layers under k have
\* returned unless the step is enable(), which runs before the layer calls
\* down; stopwatch's wrapper has stored the duration in the input slot when
\* update raises; a profile layer above k has enabled the profiler and never
\* disables it.
FailingCall(i, d, e, k, step) ==
    LET w == wrappers[i]
        func_name == get_unique_func_name(w)
        below == SubSeq(w.layers, 1, k - 1)
        above == SubSeq(w.layers, k + 1, Len(w.layers))
        st == run_layers([fns |-> functions, elapsed |-> d, last |-> <<>>],
                         func_name, below, 1, e)
    IN  /\ TotalCalls + failed < MaxCalls
        /\ k \in DOMAIN w.layers
        /\ step \in MeasurementSteps(w.layers[k])
        /\ functions' = CASE step = "update" -> set_input(st.fns, func_name, st.elapsed)
                          [] step = "disable" -> st.fns
                          [] OTHER -> functions
        /\ profiler' = IF step = "disable" THEN [active |-> TRUE]
                       ELSE IF step = "update" /\ HasProfile(below)
                       THEN [active |-> FALSE]
                       ELSE IF HasProfile(above) THEN [active |-> TRUE]
                       ELSE profiler
        /\ failed' = failed + 1
        /\ out' = [op |-> "call", name |-> func_name, err |-> "Exception", wrapper |-> i,
                   elapsed |-> IF step = "update" THEN <<st.elapsed>> ELSE st.last,
                   step |-> step, body |-> step # "enable", ret |-> <<>>]
        /\ UNCHANGED <<wrappers, calls, config, argVars, fireVars, oout, beforeVars, auxVars>>

(***************************************************************************)
(* Python values, deep copies and comparison.                              *)
(***************************************************************************)
PyList(id, items) == [kind |-> "list", id |-> id, items |-> items]

PyObj(id) == [kind |-> "obj", id |-> id, items |-> <<>>]

PyInt(v) == [kind |-> "int", id |-> 0, items |-> <<v>>]

\* inspect.Parameter.empty, the default of a parameter that declares none
Empty == [kind |-> "empty", id |-> 0, items |-> <<>>]

\* copy.deepcopy: a list or an object is rebuilt as a new object with equal
\* contents; an int and a class (inspect.Parameter.empty) are returned as is.
deepcopy(v) == IF v.kind \in {"list", "obj"} THEN [v EXCEPT !.id = 0 - v.id] ELSE v

\* x != y: lists compare their items; an object of a class that defines no
\* __eq__ compares by identity.
py_ne_items(x, y) == x.kind # y.kind \/ x.items # y.items

py_ne(x, y) ==
    \/ x.kind # y.kind
    \/ x.kind \in {"list", "int"} /\ x.items # y.items
    \/ x.kind = "obj" /\ x.id # y.id

\* What a function body does to an argument it mutates in place: a list gets
\* an element appended, an object an attribute set; an int cannot be mutated.
mutate(v) == IF v.kind \in {"list", "obj"} THEN [v EXCEPT !.items = Append(@, 2)] ELSE v

(***************************************************************************)
(* The function under the pure / trace wrappers: def fn(a, b=[1]) or       *)
(* def fn(a=[], b=[1]).                                                    *)
(***************************************************************************)
Params == <<"a", "b">>

ParamSet == {Params[i] : i \in DOMAIN Params}

ParamIndex(p) == CHOOSE i \in DOMAIN Params : Params[i] = p

\* The default objects as the def statement created them, for the two
\* declarations of fn
Declarations == {[b |-> PyList(8, <<1>>)],
                 [a |-> PyList(9, <<>>), b |-> PyList(8, <<1>>)]}

\* inspect.getfullargspec(fn).defaults: the default objects in parameter order
RECURSIVE argspecs_defaults(_, _)
argspecs_defaults(dflt, i) ==
    IF i > Len(Params) THEN <<>>
    ELSE (IF Params[i] \in DOMAIN dflt THEN <<dflt[Params[i]]>> ELSE <<>>)
         \o argspecs_defaults(dflt, i + 1)

\* The values a caller passes
ArgVals == {PyList(1, <<1>>), PyObj(2)}

\* The function's return value
Output == PyInt(3)

\* The objects a call can reach: heap.args[i], heap.kwargs[p], heap.defaults[p].
\* A reference names one of them.
deref(heap, ref) ==
    CASE ref.space = "args" -> heap.args[ParamIndex(ref.key)]
      [] ref.space = "kwargs" -> heap.kwargs[ref.key]
      [] ref.space = "defaults" -> heap.defaults[ref.key]
      [] OTHER -> Empty

\* Python's binding of fn(*args, **kwargs): the object parameter p names
binding(heap, p) ==
    IF ParamIndex(p) <= Len(heap.args) THEN [space |-> "args", key |-> p]
    ELSE IF p \in DOMAIN heap.kwargs THEN [space |-> "kwargs", key |-> p]
    ELSE IF p \in DOMAIN heap.defaults THEN [space |-> "defaults", key |-> p]
    ELSE [space |-> "empty", key |-> p]

\* The heap after the body mutated, in place, the arguments named by M
run_body(heap, M) ==
    LET hit(ref) == \E p \in M : binding(heap, p) = ref
        after(space, p, v) == IF hit([space |-> space, key |-> p]) THEN mutate(v) ELSE v
    IN  [args |-> [i \in DOMAIN heap.args |-> after("args", Params[i], heap.args[i])],
         kwargs |-> [p \in DOMAIN heap.kwargs |-> after("kwargs", p, heap.kwargs[p])],
         defaults |-> [p \in DOMAIN heap.defaults |->
                          after("defaults", p, heap.defaults[p])]]

\* util.get_shallow_default_arg_dict(fn, args): name -> object, the first
\* len(args) names of co_varnames with the positional arguments, every later
\* parameter with its declared default.  kwargs are not looked at.
get_shallow_default_arg_dict(heap) ==
    [i \in DOMAIN Params |->
        IF i <= Len(heap.args)
        THEN [key |-> Params[i], ref |-> [space |-> "args", key |-> Params[i]]]
        ELSE IF Params[i] \in DOMAIN heap.defaults
        THEN [key |-> Params[i], ref |-> [space |-> "defaults", key |-> Params[i]]]
        ELSE [key |-> Params[i], ref |-> [space |-> "empty", key |-> Params[i]]]]

\* The loop of Pojang.pure's inner over input_data: one event per key whose
\* value differs from its deep copy taken before the call
RECURSIVE pure_events(_, _, _, _)
pure_events(input_data, before, after, k) ==
    IF k > Len(input_data)
    THEN <<>>
    ELSE LET value == deref(after, input_data[k].ref)
             original == deepcopy(deref(before, input_data[k].ref))
         IN  (IF py_ne(value, original)
              THEN <<[arg |-> input_data[k].key, before |-> original, after |-> value]>>
              ELSE <<>>)
             \o pure_events(input_data, before, after, k + 1)

\* The parameters whose value the body changed, with the value before and after
changed_params(before, after) ==
    {[arg |-> p, before |-> deref(before, binding(before, p)),
      after |-> deref(after, binding(before, p))] :
        p \in {q \in ParamSet : py_ne_items(deref(before, binding(before, q)),
                                            deref(after, binding(before, q)))}}

\* The calls fn accepts: every parameter without a default is supplied, no
\* parameter is supplied twice.
ValidCall(dflt, args, kwargs) ==
    /\ \A p \in DOMAIN kwargs : ParamIndex(p) > Len(args)
    /\ \A p \in ParamSet : ParamIndex(p) <= Len(args) \/ p \in DOMAIN kwargs
                           \/ p \in DOMAIN dflt

\* The body only appends while the lists are short
CanMutate(heap, M) ==
    \A p \in M : Len(deref(heap, binding(heap, p)).items) < MaxLen

\* A function is declared and neither wrapper has been called
InitArgs(decls) ==
    /\ defaults \in decls
    /\ count = 0
    /\ pout = [op |-> "init"]

\* A call of the wrapper Pojang.pure(event_cb)(fn) returns: inner(*args, **kwargs).
\* cb = "default": event_cb raises MutatedReferenceError; cb = "custom": a
\* caller-supplied callback that returns.
PureCall(cb, args, kwargs, M) ==
    LET heap == [args |-> args, kwargs |-> kwargs, defaults |-> defaults]
        input_data == get_shallow_default_arg_dict(heap)
        after == run_body(heap, M)
        events == pure_events(input_data, heap, after, 1)
        raises == cb = "default" /\ events # <<>>
    IN  /\ ValidCall(defaults, args, kwargs)
        /\ CanMutate(heap, M)
        /\ defaults' = after.defaults
        /\ pout' = [op |-> "pure", cb |-> cb,
                    err |-> IF raises THEN "MutatedReferenceError" ELSE "none",
                    raised |-> IF raises THEN <<events[1]>> ELSE <<>>,
                    events |-> IF cb = "custom" THEN events ELSE <<>>,
                    ret |-> IF raises THEN <<>> ELSE <<Output>>,
                    changed |-> changed_params(heap, after),
                    log |-> <<>>]
        /\ UNCHANGED <<regVars, count, fireVars, oout, extVars>>

\* The call record of the standalone trace wrapper: for every name of
\* argspecs.args the repr of the positional argument, the keyword argument, or
\* argspecs.defaults[default_index] with default_index counting the defaults
\* used so far.
RECURSIVE call_record(_, _, _, _)
call_record(heap, dflts, i, default_index) ==
    IF i > Len(Params)
    THEN <<>>
    ELSE LET test == Params[i]
         IN  IF i <= Len(heap.args)
             THEN <<[name |-> test, fmt |-> "repr", value |-> heap.args[i]]>>
                  \o call_record(heap, dflts, i + 1, default_index)
             ELSE IF test \notin DOMAIN heap.kwargs
             THEN <<[name |-> test, fmt |-> "str", value |-> dflts[default_index + 1]]>>
                  \o call_record(heap, dflts, i + 1, default_index + 1)
             ELSE <<[name |-> test, fmt |-> "str", value |-> heap.kwargs[test]]>>
                  \o call_record(heap, dflts, i + 1, default_index)

\* deep_cpy_args != args, deep_cpy_kwargs != kwargs of the trace wrapper
args_modified(before, after) ==
    \E i \in DOMAIN after.args : py_ne(deepcopy(before.args[i]), after.args[i])

kwargs_modified(before, after) ==
    \E p \in DOMAIN after.kwargs : py_ne(deepcopy(before.kwargs[p]), after.kwargs[p])

\* A call of the wrapper experiment.util.trace(...)(fn) returns
TraceCall(args, kwargs, M) ==
    LET heap == [args |-> args, kwargs |-> kwargs, defaults |-> defaults]
        dflts == argspecs_defaults(defaults, 1)
        after == run_body(heap, M)
    IN  /\ ValidCall(defaults, args, kwargs)
        /\ CanMutate(heap, M)
        /\ count < MaxTraced
        /\ count' = count + 1
        /\ defaults' = after.defaults
        /\ pout' = [op |-> "trace", cb |-> "none", err |-> "none", raised |-> <<>>,
                    events |-> <<>>, ret |-> <<Output>>, args |-> args,
                    kwargs |-> kwargs, declared |-> defaults,
                    changed |-> changed_params(heap, after),
                    log |-> <<[line |-> "called", record |-> call_record(heap, dflts, 1, 0),
                               count |-> count + 1]>>
                            \o (IF args_modified(heap, after)
                                THEN <<[line |-> "args has been modified"]>> ELSE <<>>)
                            \o (IF kwargs_modified(heap, after)
                                THEN <<[line |-> "kwargs has been modified"]>> ELSE <<>>)
                            \o <<[line |-> "returned", value |-> Output]>>]
        /\ UNCHANGED <<regVars, fireVars, oout, extVars>>

\* The argument tuples and keyword dictionaries of the modelled calls
ArgTuples == UNION {[1..n -> ArgVals] : n \in 0..Len(Params)}

KwDicts == UNION {[K -> ArgVals] : K \in SUBSET ParamSet}

DoPureCall ==
    \E cb \in {"default", "custom"}, args \in ArgTuples, kwargs \in KwDicts,
       M \in SUBSET ParamSet : PureCall(cb, args, kwargs, M)

DoTraceCall ==
    \E args \in ArgTuples, kwargs \in KwDicts, M \in SUBSET ParamSet :
        TraceCall(args, kwargs, M)

\* A call wrapper(*args, **kwargs) of wrappers[i], the wrapper Pojang.trace /
\* Yeezy.trace returned around fn (warn_side_effects left at its default,
\* True), returns.  The wrapper is `return func(*args, **kwargs)`: it takes no
\* snapshot, compares nothing and writes nothing to the log sink.
TracedCall(i, args, kwargs, M) ==
    LET heap == [args |-> args, kwargs |-> kwargs, defaults |-> defaults]
        after == run_body(heap, M)
    IN  /\ wrappers[i].layers = <<"trace">>
        /\ ValidCall(defaults, args, kwargs)
        /\ CanMutate(heap, M)
        /\ defaults' = after.defaults
        /\ pout' = [op |-> "traced", cb |-> "none", err |-> "none", raised |-> <<>>,
                    events |-> <<>>, ret |-> <<Output>>,
                    changed |-> changed_params(heap, after),
                    log |-> <<>>]
        /\ UNCHANGED <<regVars, count, fireVars, oout, extVars>>

DoTracedCall ==
    \E i \in DOMAIN wrappers, args \in ArgTuples, kwargs \in KwDicts,
       M \in SUBSET ParamSet : TracedCall(i, args, kwargs, M)

(***************************************************************************)
(* fire_if.  The wrapped function is def func(arr): return sum(arr).       *)
(***************************************************************************)
Callbacks == {"cb1", "cb2"}

RECURSIVE SumSeq(_)
SumSeq(arr) == IF arr = <<>> THEN 0 ELSE Head(arr) + SumSeq(Tail(arr))

Arrays == UNION {[1..n -> {0, 1}] : n \in 0..MaxArr}

\* The calls of the wrapper: func(arr) and func(arr=arr)
FireCalls == {[args |-> <<arr>>, kwargs |-> <<>>] : arr \in Arrays}
             \cup {[args |-> <<>>, kwargs |-> [arr |-> arr]] : arr \in Arrays}

\* The predicates given to fire_if, each taking (output, instance, arr):
\* len(arr) > k, output (true when not 0), arr (true when not empty)
Predicates == {[kind |-> "len_gt", k |-> k] : k \in 0..MaxArr}
              \cup {[kind |-> "output", k |-> 0], [kind |-> "arr", k |-> 0]}

\* predicate: Callable = lambda x: x, the predicate of a fire_if given none
DefaultPredicate == [kind |-> "default", k |-> 0]

EventLists == UNION {[1..n -> Callbacks] : n \in 0..MaxEvents}

\* func(*args, **kwargs)
func_call(args, kwargs) == SumSeq(IF args # <<>> THEN args[1] ELSE kwargs.arr)

\* The truth value of predicate(*pargs, **kwargs), pargs = (output, instance, *args)
predicate_call(predicate, pargs, kwargs) ==
    LET arr == IF Len(pargs) >= 3 THEN pargs[3] ELSE kwargs.arr
    IN  CASE predicate.kind = "len_gt" -> Len(arr) > predicate.k
          [] predicate.kind \in {"output", "default"} -> pargs[1] # 0
          [] OTHER -> arr # <<>>

\* What the call predicate(*pargs, **kwargs) raises: lambda x: x takes one
\* positional argument and no other keyword, the predicates a caller writes
\* take (output, instance, arr)
predicate_err(predicate, pargs, kwargs) ==
    IF predicate.kind = "default" /\ (Len(pargs) > 1 \/ DOMAIN kwargs \ {"x"} # {})
    THEN "TypeError"
    ELSE "none"

\* The body of fire_if's wrapped after func returned output: the calls of the
\* events it makes, in order
fire_events_always(events_to_fire, predicate, output, args, kwargs) ==
    [k \in DOMAIN events_to_fire |->
        [event |-> events_to_fire[k], args |-> <<output>> \o args, kwargs |-> kwargs]]

fire_events(events_to_fire, predicate, output, args, kwargs) ==
    IF predicate_call(predicate, <<output, "self">> \o args, kwargs)
    THEN [k \in DOMAIN events_to_fire |->
             [event |-> events_to_fire[k], args |-> <<output>> \o args, kwargs |-> kwargs]]
    ELSE <<>>

InitFire ==
    /\ fwrapped = <<>>
    /\ fout = [op |-> "init"]

\* Pojang.fire_if(events_to_fire, predicate)(func) / Yeezy.fire_if
FireIf(events_to_fire, predicate) ==
    /\ fwrapped' = <<[events_to_fire |-> events_to_fire, predicate |-> predicate]>>
    /\ fout' = [op |-> "fire_if"]
    /\ UNCHANGED <<regVars, argVars, oout, extVars>>

\* A call wrapped(*args, **kwargs) of the wrapper fire_if returned, or raised
\* at the call of the predicate
FireIfCall(call) ==
    /\ fwrapped # <<>>
    /\ LET output == func_call(call.args, call.kwargs)
           err == predicate_err(fwrapped[1].predicate, <<output, "self">> \o call.args,
                                call.kwargs)
       IN  fout' = IF err # "none"
                   THEN [op |-> "raise", err |-> err, args |-> call.args,
                         kwargs |-> call.kwargs, output |-> output, fired |-> <<>>]
                   ELSE [op |-> "call", args |-> call.args, kwargs |-> call.kwargs,
                         output |-> output,
                         fired |-> fire_events(fwrapped[1].events_to_fire,
                                               fwrapped[1].predicate, output, call.args,
                                               call.kwargs),
                         ret |-> output]
    /\ UNCHANGED <<regVars, argVars, fwrapped, oout, extVars>>

DoFireIf == \E events_to_fire \in EventLists, predicate \in Predicates :
                FireIf(events_to_fire, predicate)

DoFireIfCall == \E call \in FireCalls : FireIfCall(call)

(***************************************************************************)
(* observe.                                                                *)
(***************************************************************************)
\* A member of a class as inspect.getmembers lists it: the tuple (name, value)
Member(name, value) == [kind |-> "tuple", name |-> name, value |-> value]

Str(name) == [kind |-> "str", name |-> name, value |-> "-"]

\* The objects observe is applied to: two classes (B has no attribute x), a
\* function, an instance of A, an int and a str.  has_dict: the object has a
\* __dict__; has_name: it has a __name__.
ClassA == [kind |-> "class", name |-> "A", has_dict |-> TRUE, has_name |-> TRUE,
           members |-> {Member("x", "1"), Member("m", "function")}]

ClassB == [kind |-> "class", name |-> "B", has_dict |-> TRUE, has_name |-> TRUE,
           members |-> {Member("m", "function")}]

ObserveTargets ==
    {ClassA, ClassB,
     [kind |-> "function", name |-> "h", has_dict |-> TRUE, has_name |-> TRUE,
      members |-> {Member("__name__", "h")}],
     [kind |-> "instance", name |-> "-", has_dict |-> TRUE, has_name |-> FALSE,
      members |-> {Member("x", "1"), Member("m", "method")}],
     [kind |-> "int", name |-> "-", has_dict |-> FALSE, has_name |-> FALSE,
      members |-> {}],
     [kind |-> "str", name |-> "-", has_dict |-> FALSE, has_name |-> FALSE,
      members |-> {}]}

\* None, the value a function without a return statement returns
NoneValue == [kind |-> "None", name |-> "-", has_dict |-> FALSE, has_name |-> FALSE,
              members |-> {}]

\* The entries of a properties list: names, a (name, value) tuple, an int
Props == {Str("x"), Str("m"), Str("y"), Member("x", "1"),
          [kind |-> "int", name |-> "-", value |-> "5"]}

PropLists == UNION {[1..n -> Props] : n \in 0..MaxProps}

\* The properties argument of observe: None or a list
PropertyArgs == {[kind |-> "None", items |-> <<>>]}
                \cup {[kind |-> "list", items |-> l] : l \in PropLists}

\* util.is_class_instance(item): hasattr(item, '__dict__')
is_class_instance(item) == item.has_dict

\* The loop of observe_class over properties from entry k: the first error
RECURSIVE check_props(_, _, _)
check_props(properties, class_props, k) ==
    IF k > Len(properties)
    THEN "none"
    ELSE IF properties[k] \notin class_props
    THEN "ValueError"
    ELSE IF properties[k].kind # "str"
    THEN "ValueError"
    ELSE check_props(properties, class_props, k + 1)

\* observe_class(cls): the error it raises, or "none".  properties is the
\* argument observe was given: None, a list, or (bare form) cls itself.
observe_class_err(cls, properties) ==
    IF ~is_class_instance(cls) THEN "NotClassException"
    ELSE IF ~cls.has_name THEN "AttributeError"
    ELSE IF properties.kind = "list"
    THEN check_props(properties.items, cls.members, 1)
    ELSE "none"

\* observe_class(cls): what it returns when it raises nothing: it has no
\* return statement
observe_class_return(cls) == NoneValue

InitObserve == oout = [op |-> "init"]

\* @observe(properties) above the definition of target: target is bound to
\* observe(properties)(target).  No instance of target exists yet.
ObserveCalled(properties, target) ==
    LET err == observe_class_err(target, properties)
    IN  /\ oout' = [op |-> "observe", form |-> "called", properties |-> properties,
                    target |-> target, err |-> err,
                    result |-> IF err = "none" THEN <<observe_class_return(target)>>
                               ELSE <<>>,
                    instances |-> 0]
        /\ UNCHANGED <<regVars, argVars, fireVars, extVars>>

\* @observe above the definition of target: target is bound to observe(target).
\* An object with a __dict__ is taken for the class to observe; for any other
\* object observe returns the decorator observe_class.
ObserveBare(target) ==
    LET err == IF is_class_instance(target)
               THEN observe_class_err(target, target)
               ELSE "none"
    IN  /\ oout' = [op |-> "observe", form |-> "bare",
                    properties |-> [kind |-> "None", items |-> <<>>],
                    target |-> target, err |-> err,
                    result |-> IF err # "none" THEN <<>>
                               ELSE IF is_class_instance(target)
                               THEN <<observe_class_return(target)>>
                               ELSE <<[NoneValue EXCEPT !.kind = "function",
                                                        !.name = "observe_class"]>>,
                    instances |-> 0]
        /\ UNCHANGED <<regVars, argVars, fireVars, extVars>>

DoObserveCalled == \E properties \in PropertyArgs, target \in ObserveTargets :
                       ObserveCalled(properties, target)

DoObserveBare == \E target \in ObserveTargets : ObserveBare(target)

(***************************************************************************)
(* run_before.  The wrapped function is fn of the pure / trace model; the  *)
(* callbacks take the same parameters.                                     *)
(***************************************************************************)
\* The argument of run_before: one callable, or a list of callables
BeforeArgs == {[kind |-> "callable", items |-> <<cb>>] : cb \in Callbacks}
              \cup {[kind |-> "list", items |-> l] : l \in EventLists}

\* util.is_iterable
is_iterable(obj) == obj.kind = "list"

\* inspect.signature(fn).parameters[p].default
parameter_default(dflt, p) == IF p \in DOMAIN dflt THEN dflt[p] ELSE Empty

\* util.fill_default_kwargs(fn, args, kwargs): kwargs after it.  Every
\* parameter at a position >= len(args) is assigned its declared default.
fill_default_kwargs(dflt, args, kwargs) ==
    [p \in DOMAIN kwargs \cup {Params[i] : i \in (Len(args) + 1)..Len(Params)} |->
        IF ParamIndex(p) > Len(args) THEN parameter_default(dflt, p) ELSE kwargs[p]]

\* preprocess(functions, *args, **kwargs): the calls it makes, in order
preprocess_first_only(funcs, args, kwargs) ==
    IF funcs.items = <<>> THEN <<>>
    ELSE <<[who |-> funcs.items[1], args |-> args, kwargs |-> kwargs]>>

preprocess(funcs, args, kwargs) ==
    IF is_iterable(funcs)
    THEN [k \in DOMAIN funcs.items |->
             [who |-> funcs.items[k], args |-> args, kwargs |-> kwargs]]
    ELSE <<[who |-> funcs.items[1], args |-> args, kwargs |-> kwargs]>>

\* Pojang.run_before(functions)(fn)
RunBefore(funcs) ==
    /\ rwrapped' = <<[functions |-> funcs]>>
    /\ rout' = [op |-> "run_before"]
    /\ UNCHANGED <<regVars, argVars, fireVars, oout, profiler, failed, auxVars>>

\* A call inner(*args, **kwargs) of the wrapper run_before returned.  started:
\* the calls in the order they started, each having returned before the next;
\* the last is the call of fn.
RunBeforeCall(args, kwargs) ==
    /\ rwrapped # <<>>
    /\ ValidCall(defaults, args, kwargs)
    /\ LET filled == fill_default_kwargs(defaults, args, kwargs)
       IN  rout' = [op |-> "call", args |-> args, kwargs |-> kwargs,
                    started |-> preprocess(rwrapped[1].functions, args, filled)
                                \o <<[who |-> "fn", args |-> args, kwargs |-> filled]>>,
                    ret |-> <<Output>>]
    /\ UNCHANGED <<regVars, argVars, fireVars, oout, profiler, failed, rwrapped,
                 auxVars>>

DoRunBefore == \E funcs \in BeforeArgs : RunBefore(funcs)

DoRunBeforeCall == \E args \in ArgTuples, kwargs \in KwDicts : RunBeforeCall(args, kwargs)

Init == /\ InitRegistry({Bool(TRUE), Bool(FALSE)})
        /\ InitArgs({[b |-> PyList(8, <<1>>)]})
        /\ InitFire
        /\ InitObserve

InitCalls == /\ InitRegistry({Bool(FALSE)})
             /\ InitArgs(Declarations)
             /\ InitFire
             /\ InitObserve

DoTrace == \E func \in Targets, hasContext \in BOOLEAN : Trace(func, hasContext)

DoStopwatch == \E func \in Targets : Stopwatch(func)

DoCall == \E i \in DOMAIN wrappers, d \in 1..MaxDur, e \in 0..1 : Call(i, d, e)

Next == DoTrace \/ DoStopwatch \/ DoCall

Spec == Init /\ [][Next]_vars

NextArgs == DoPureCall \/ DoTraceCall

SpecArgs == InitCalls /\ [][NextArgs]_vars

NextFire == DoFireIf \/ DoFireIfCall

SpecFire == Init /\ [][NextFire]_vars

DoProfile == \E func \in Targets : Profile(func)

DoFailingCall ==
    \E i \in DOMAIN wrappers, d \in 1..MaxDur, e \in 0..1, k \in 1..MaxWraps,
       step \in {"update", "enable", "disable"} : FailingCall(i, d, e, k, step)

NextMeasure == DoStopwatch \/ DoProfile \/ DoCall \/ DoFailingCall

SpecMeasure == Init /\ [][NextMeasure]_vars

NextBefore == DoRunBefore \/ DoRunBeforeCall

SpecBefore == InitCalls /\ [][NextBefore]_vars

\* pj.trace()(fn), fn being the function object "f"
DoTraceFn == \E hasContext \in BOOLEAN : Trace(Base("f"), hasContext)

NextTraced == DoTraceFn \/ DoTracedCall

SpecTraced == InitCalls /\ [][NextTraced]_vars

NextOrder == DoTrace \/ DoStopwatch \/ Analyze

SpecOrder == Init /\ [][NextOrder]_vars

NextProfiled ==
    \/ DoProfile
    \/ \E i \in DOMAIN wrappers : ProfiledEnter(i)
    \/ ProfiledReturn
    \/ ProfiledRaise

SpecProfiled == Init /\ [][NextProfiled]_vars

DoRegister ==
    \E cls \in Classes, b \in {"f", "g"}, a \in {"f", "g"} :
        Register(cls, QualName(b), Base(a))

DoRegisterDecorator == \E cls \in Classes, b \in BaseFuncs : RegisterDecorator(cls, Base(b))

NextRegister == DoRegister \/ DoRegisterDecorator

SpecRegister == Init /\ [][NextRegister]_vars

\* One use of each wrapping policy that registers nothing, next to a stopwatch
\* and a register_decorator that fill functions and custom
CallFireIf == \E arr \in {<<>>, <<1>>} : FireIfCall([args |-> <<arr>>, kwargs |-> <<>>])

CallRunBefore == \E a \in ArgVals : RunBeforeCall(<<a>>, <<>>)

CallWrapper == \E i \in DOMAIN wrappers : Call(i, 1, 0)

NextFrame ==
    \/ FireIf(<<"cb1">>, [kind |-> "output", k |-> 0])
    \/ CallFireIf
    \/ RunBefore([kind |-> "callable", items |-> <<"cb1">>])
    \/ CallRunBefore
    \/ DoProfile
    \/ CallWrapper
    \/ Stopwatch(Base("f"))
    \/ RegisterDecorator("Pojang", Base("g"))

SpecFrame == Init /\ [][NextFrame]_vars

DoBefore == \E func \in Targets, stat_updater \in BOOLEAN : Before(func, stat_updater)

NextDecorate == DoBefore \/ DoTrace \/ DoStopwatch

SpecDecorate == Init /\ [][NextDecorate]_vars

\* pj.fire_if(events_to_fire)(func): no predicate given
DoFireIfDefault == \E events_to_fire \in EventLists : FireIf(events_to_fire, DefaultPredicate)

NextFireDefault == DoFireIfDefault \/ DoFireIfCall

SpecFireDefault == Init /\ [][NextFireDefault]_vars

NextTimed == Tick \/ TcEnter \/ TcExit

SpecTimed == Init /\ [][NextTimed]_vars

NextObserve == DoObserveCalled \/ DoObserveBare \/ DoStopwatch

SpecObserve == Init /\ [][NextObserve]_vars


(***************************************************************************)
(* Configuration and policy options.                                       *)
(***************************************************************************)
\* The debug setter: the configuration it leaves
debug_setter_unchecked(cfg, new_mode) == [cfg EXCEPT !.debug = new_mode]

debug_setter(cfg, new_mode) ==
    IF new_mode.type # "bool" THEN cfg ELSE [cfg EXCEPT !.debug = new_mode]

\* The debug setter: the error it raises
debug_setter_err(new_mode) == IF new_mode.type # "bool" THEN "TypeError" ELSE "none"

\* pj.debug = new_mode
SetDebug(new_mode) ==
    /\ config' = debug_setter(config, new_mode)
    /\ out' = [op |-> "set_debug", err |-> debug_setter_err(new_mode),
               value |-> new_mode, before |-> config]
    /\ UNCHANGED <<functions, wrappers, calls, argVars, fireVars, oout, extVars>>

\* Pojang.FUNCTION_PROPS: option name -> required type
FUNCTION_PROPS == [compute_statistics |-> "bool"]

\* The keyword options given to pure: none, compute_statistics, or an option
\* FUNCTION_PROPS does not list
OptionDicts == {<<>>}
               \cup {[compute_statistics |-> v] :
                        v \in {Bool(TRUE), PyVal("int", TRUE), PyVal("str", TRUE)}}
               \cup {[verbose |-> PyVal("int", TRUE)]}

\* util.validate_type
validate_type(obj, key, target_type) ==
    IF obj[key].type # target_type THEN "TypeError" ELSE "none"

\* util.create_properties: the error it raises.  Only the keys of
\* valid_properties are looked at.
create_properties(valid_properties, kwargs) ==
    IF \E key \in DOMAIN valid_properties \cap DOMAIN kwargs :
          validate_type(kwargs, key, valid_properties[key]) # "none"
    THEN "TypeError"
    ELSE "none"

\* _add_function_decorator_rule: the error it raises.  Its call of
\* _update_decoration_info passes two of the three required arguments.
add_function_decorator_rule(func, kwargs) ==
    IF create_properties(FUNCTION_PROPS, kwargs) # "none"
    THEN create_properties(FUNCTION_PROPS, kwargs)
    ELSE "TypeError"

\* add_decorator_rule: the error it raises.  An object with a __dict__ gets
\* the class rule, which does nothing.
add_decorator_rule(obj_to_decorate, kwargs) ==
    IF is_class_instance(obj_to_decorate)
    THEN "none"
    ELSE add_function_decorator_rule(obj_to_decorate, kwargs)

\* The callables pure is applied to: a def function, a class and the builtin
\* len (which has no __dict__)
PureTargets ==
    {[kind |-> "function", name |-> "h", has_dict |-> TRUE, has_name |-> TRUE,
      members |-> {}],
     [kind |-> "class", name |-> "A", has_dict |-> TRUE, has_name |-> TRUE,
      members |-> {}],
     [kind |-> "builtin", name |-> "len", has_dict |-> FALSE, has_name |-> TRUE,
      members |-> {}]}

\* Pojang.pure(**kw)(function): wrapper(function)
PureWrap(kw, function) ==
    LET err == add_decorator_rule(function, kw)
    IN  /\ out' = [op |-> "pure", err |-> err, kw |-> kw, target |-> function,
                   returned |-> IF err = "none" THEN <<"inner">> ELSE <<>>]
        /\ UNCHANGED <<functions, wrappers, calls, config, argVars, fireVars, oout, extVars>>

DoSetDebug == \E new_mode \in OptionValues : SetDebug(new_mode)

DoPureWrap == \E kw \in OptionDicts, function \in PureTargets : PureWrap(kw, function)

InitConfig == /\ InitRegistry(OptionValues)
              /\ InitArgs({[b |-> PyList(8, <<1>>)]})
              /\ InitFire
              /\ InitObserve

NextConfig == DoSetDebug \/ DoPureWrap \/ DoTrace \/ DoStopwatch

SpecConfig == InitConfig /\ [][NextConfig]_vars

(***************************************************************************)
(* Properties of the registry.                                             *)
(***************************************************************************)
WrapOps == {"trace", "stopwatch"}

AllStopwatch(w) == /\ Len(w.layers) >= 1
                   /\ \A k \in DOMAIN w.layers : w.layers[k] = "stopwatch"

\* C1: after any sequence of trace and stopwatch wraps, `functions` holds
\* exactly one entry per function identity: every identity that was wrapped
\* has an entry, and no two entries share an identity.
C1_OneEntryPerIdentity ==
    /\ \A i, j \in DOMAIN functions :
          functions[i].name = functions[j].name => i = j
    /\ \A i \in DOMAIN wrappers :
          get_unique_func_name(wrappers[i]) \in Names(functions)
    /\ (out.op \in WrapOps => out.name \in Names(functions))

\* C1 witness: a function wrapped by stopwatch and then by trace on top of it;
\* the second wrap found the identity registered and the registry has one entry.
C1_Witness ==
    /\ out.op = "trace" /\ out.dup
    /\ Len(functions) = 1
    /\ \E i \in DOMAIN wrappers : wrappers[i].layers = <<"stopwatch", "trace">>

\* C2: a wrap (trace or stopwatch) of an identity that is already registered
\* leaves the existing entry as it was: function reference, statistics object
\* and input slot.
C2_DuplicateWrapLeavesEntry ==
    [][(out'.op \in WrapOps /\ out'.name \in Names(functions))
         => functions'[IndexOf(functions', out'.name)]
              = functions[IndexOf(functions, out'.name)]]_vars

\* C6: after N completed calls of the outermost wrapper of a function wrapped
\* by stopwatch one or more times (no other wrapper of the function having
\* been called), the statistics have received exactly N updates, and right
\* after a call the input slot holds the duration that call measured.
C6_StopwatchCountsCalls ==
    \A i \in DOMAIN wrappers :
        LET w == wrappers[i]
            name == get_unique_func_name(w)
            entry == functions[IndexOf(functions, name)]
        IN  (/\ AllStopwatch(w)
             /\ \A j \in DOMAIN wrappers :
                   (j # i /\ get_unique_func_name(wrappers[j]) = name) => calls[j] = 0)
            => /\ entry.props.updates = calls[i]
               /\ (out.op = "call" /\ out.wrapper = i) => entry.input = out.elapsed

(***************************************************************************)
(* Properties of the pure and trace wrappers.                              *)
(***************************************************************************)
\* The event reports the change c: the parameter's name with its value
\* before and after the call
Reports(event, c) ==
    /\ event.arg = c.arg
    /\ ~py_ne_items(event.before, c.before)
    /\ ~py_ne_items(event.after, c.after)

\* C3: with the default callback, a call whose body mutated an argument in
\* place (passed positionally, by keyword or left to its default) raises the
\* mutated-argument error naming a mutated argument with its value before and
\* after.
C3_MutationRaises ==
    (pout.op = "pure" /\ pout.cb = "default" /\ pout.changed # {})
        => /\ pout.err = "MutatedReferenceError"
           /\ \E c \in pout.changed : Reports(pout.raised[1], c)

\* C4: with a caller-supplied callback, the callback is invoked exactly once
\* with (name, before, after) for every parameter whose value changed, for no
\* other parameter, and the call returns the function's output.
C4_CallbackPerChangedParameter ==
    (pout.op = "pure" /\ pout.cb = "custom")
        => /\ \A c \in pout.changed :
                 Cardinality({k \in DOMAIN pout.events : Reports(pout.events[k], c)}) = 1
           /\ \A k \in DOMAIN pout.events :
                 \E c \in pout.changed : Reports(pout.events[k], c)
           /\ pout.ret = <<Output>>

\* C5: a call of a trace- or pure-wrapped function that leaves the values of
\* all its arguments unchanged reports no mutation: the pure callback is not
\* invoked (the default one does not raise) and no "has been modified" line is
\* logged.
C5_NoMutationNoReport ==
    (pout.op \in {"pure", "trace"} /\ pout.changed = {})
        => /\ pout.events = <<>>
           /\ pout.err = "none"
           /\ \A k \in DOMAIN pout.log :
                 pout.log[k].line \notin {"args has been modified",
                                          "kwargs has been modified"}

MemberNames(cls) == {m.name : m \in cls.members}

\* C8: observe with a list of names, each a string naming a real attribute of
\* the decorated class, is accepted: the decoration raises nothing.
C8_ValidNamesAccepted ==
    (/\ oout.op = "observe" /\ oout.form = "called"
     /\ oout.properties.kind = "list"
     /\ oout.target.kind = "class"
     /\ \A k \in DOMAIN oout.properties.items :
           /\ oout.properties.items[k].kind = "str"
           /\ oout.properties.items[k].name \in MemberNames(oout.target))
        => oout.err = "none"

\* C9: observe(['x']) applied to a class that has no attribute x raises
\* InvalidPropertyError at decoration time, before any instance exists.
C9_UnknownNameRaisesInvalidProperty ==
    (/\ oout.op = "observe" /\ oout.form = "called"
     /\ oout.properties = [kind |-> "list", items |-> <<Str("x")>>]
     /\ oout.target.kind = "class"
     /\ "x" \notin MemberNames(oout.target))
        => /\ oout.err = "InvalidPropertyError"
           /\ oout.instances = 0

\* C10: observe with no properties applied to a class, as @observe() or as
\* @observe, is a no-op: nothing is raised, the registry is unchanged and the
\* decorated name still refers to the class.
C10_NoPropertiesNoOp ==
    [][(/\ oout' # oout
        /\ oout'.op = "observe"
        /\ oout'.properties.kind = "None"
        /\ oout'.target.kind = "class")
         => /\ oout'.err = "none"
            /\ oout'.result = <<oout'.target>>
            /\ functions' = functions]_vars


\* C11: the class-only observe decorator applied to a value that is not a
\* class (a function, an instance of a user class, an int, a str) raises the
\* not-a-class error, and the wrapping call returns nothing.
C11_NonClassRaisesNotAClass ==
    (/\ oout.op = "observe" /\ oout.form = "called"
     /\ oout.target.kind # "class")
        => /\ oout.err = "NotClassException"
           /\ oout.result = <<>>


(***************************************************************************)
(* Properties of the configuration and the policy options.                 *)
(***************************************************************************)
\* C12: pure applied to a function with a wrong-typed policy option
\* (compute_statistics given a non-boolean) raises an error at wrap time and
\* returns no wrapper.
C12_WrongTypedOptionRaises ==
    (/\ out.op = "pure"
     /\ out.target.kind \in {"function", "builtin"}
     /\ "compute_statistics" \in DOMAIN out.kw
     /\ out.kw.compute_statistics.type # "bool")
        => /\ out.err = "TypeError"
           /\ out.returned = <<>>

\* C13: the configuration is immutable after construction: no operation on
\* the instance changes config.
C13_ConfigImmutable == [][config' = config]_vars

\* C13 as amended: the configuration changes only through the debug setter
\* given a boolean, which replaces the debug flag with that boolean; the
\* inspection mode and the log destination never change.
C13_ConfigChangesOnlyByDebugSetter ==
    [][/\ config'.inspect_mode = config.inspect_mode
       /\ config'.log_path = config.log_path
       /\ config' # config
            => /\ out'.op = "set_debug"
               /\ out'.value.type = "bool"
               /\ config'.debug = out'.value]_vars

\* C13 witness: after a function was wrapped, the debug setter was given True
\* while the stored flag was False, and the configuration holds True with the
\* inspection mode and log destination of the construction.
C13_Witness ==
    /\ out.op = "set_debug" /\ out.err = "none"
    /\ out.value = Bool(TRUE)
    /\ out.before = get_new_configs(Bool(FALSE), 1, "None")
    /\ config = get_new_configs(Bool(TRUE), 1, "None")
    /\ Len(functions) = 1

\* C14: a non-boolean value for the debug option, at construction or through
\* the debug setter, raises InvalidConfigTypeError, and the setter leaves the
\* stored configuration as it was.
C14_NonBooleanDebugRaises ==
    (out.op \in {"init", "set_debug"} /\ out.value.type # "bool")
        => /\ out.err = "InvalidConfigTypeError"
           /\ (out.op = "set_debug" => config = out.before)


(***************************************************************************)
(* Properties of the measuring wrappers.                                   *)
(***************************************************************************)
\* C15: a call of a stopwatch- or profile-wrapped function in which the
\* measurement step (the statistics update, the profiler's enable or disable)
\* raises still returns the wrapped function's result: nothing propagates to
\* the caller.
C15_MeasurementFailureSwallowed ==
    (out.op = "call" /\ out.step \in {"update", "enable", "disable"})
        => /\ out.err = "none"
           /\ out.ret = <<func_result(wrappers[out.wrapper])>>


(***************************************************************************)
(* Properties of run_before.                                               *)
(***************************************************************************)
\* The value parameter p has in the call c of a callback or of fn
Received(c, p) ==
    IF ParamIndex(p) <= Len(c.args) THEN c.args[ParamIndex(p)] ELSE c.kwargs[p]

\* The value the caller supplied for p, or p's declared default
Supplied(args, kwargs, p) ==
    IF ParamIndex(p) <= Len(args) THEN args[ParamIndex(p)]
    ELSE IF p \in DOMAIN kwargs THEN kwargs[p]
    ELSE defaults[p]

\* C16: run_before fills in defaults only for parameters the caller did not
\* supply: every callback and the wrapped function receive the caller's value
\* for a parameter supplied positionally or by keyword, and the declared
\* default for an unsupplied one.
C16_DefaultsOnlyForUnsupplied ==
    rout.op = "call" =>
        \A k \in DOMAIN rout.started : \A p \in ParamSet :
            Received(rout.started[k], p) = Supplied(rout.args, rout.kwargs, p)

\* C17: on every call of a run_before-wrapped function each supplied callback
\* (the single callback, or every callback of the list in list order) is
\* invoked exactly once, all with the same arguments, and all of them have
\* completed before the body of the wrapped function starts.
C17_CallbacksOnceBeforeBody ==
    rout.op = "call" =>
        LET cbs == rwrapped[1].functions.items
            n == Len(cbs)
        IN  /\ Len(rout.started) = n + 1
            /\ \A k \in 1..n : rout.started[k].who = cbs[k]
            /\ rout.started[n + 1].who = "fn"
            /\ \A k \in 1..n :
                  /\ rout.started[k].args = rout.started[1].args
                  /\ rout.started[k].kwargs = rout.started[1].kwargs
            /\ rout.started[n + 1].args = rout.args

\* C17 witness: a list of two different callbacks, a call with one positional
\* argument; both callbacks ran, in list order, and then fn.
C17_Witness ==
    /\ rout.op = "call"
    /\ rwrapped[1].functions = [kind |-> "list", items |-> <<"cb2", "cb1">>]
    /\ Len(rout.args) = 1
    /\ Len(rout.started) = 3
    /\ rout.started[3].who = "fn"


(***************************************************************************)
(* Properties of the duplicate log and of identity resolution.             *)
(***************************************************************************)
DuplicateLine == "Found duplicate decorator with identity"

\* C18: every registration (trace or stopwatch wrap) of an identity that is
\* already in the registry emits a duplicate-detected line through the log
\* sink.
C18_DuplicateRegistrationLogged ==
    (out.op \in WrapOps /\ out.dup)
        => \E k \in DOMAIN out.log : out.log[k].msg = DuplicateLine


\* C19: identity resolution never maps two distinct function objects to the
\* same key: any two wrapped callables over different function objects
\* (a redefinition under the same name included) have different identities.
C19_DistinctFunctionsDistinctKeys ==
    \A i, j \in DOMAIN wrappers :
        wrappers[i].base # wrappers[j].base
            => get_unique_func_name(wrappers[i]) # get_unique_func_name(wrappers[j])


(***************************************************************************)
(* Properties of the registry's trace wrapper.                             *)
(***************************************************************************)
\* C20: a call of a function wrapped by the registry's trace policy
\* (warn_side_effects enabled) whose body changes the value of one of its
\* arguments reports a side-effect warning for that call.
C20_TraceWarnsSideEffects ==
    (pout.op = "traced" /\ pout.changed # {})
        => \E k \in DOMAIN pout.log : pout.log[k].line = "side effect warning"


(***************************************************************************)
(* Properties of the statistics and of the order of the registry.          *)
(***************************************************************************)
\* C21: for every registration entry, whichever policy (trace or stopwatch)
\* created it, each call of a wrapper of the entry's function updates the
\* entry's statistics before the call returns.
C21_CallUpdatesStatistics ==
    [][\A i \in DOMAIN calls :
          (/\ calls'[i] > calls[i]
           /\ get_unique_func_name(wrappers[i]) \in Names(functions))
            => LET name == get_unique_func_name(wrappers[i])
               IN  functions'[IndexOf(functions', name)].props.updates
                     > functions[IndexOf(functions, name)].props.updates]_vars


\* The identities analyze listed, in the order of its lines
Listed(lines) ==
    LET entries == SelectSeq(lines, LAMBDA l : l.msg = "Function")
    IN  [k \in DOMAIN entries |-> entries[k].name]

\* C22: the registry enumerates its entries in insertion order: a
\* registration never moves an entry, a first registration puts the new
\* entry after all others, and analyze lists the entries in that order.
C22_InsertionOrderKept ==
    [][/\ Len(functions') >= Len(functions)
       /\ \A k \in DOMAIN functions : functions'[k].name = functions[k].name
       /\ Len(functions') > Len(functions)
            => /\ Len(functions') = Len(functions) + 1
               /\ functions'[Len(functions')].name = out'.name
       /\ out'.op = "analyze"
            => Listed(out'.log) = [k \in DOMAIN functions |-> functions[k].name]]_vars

\* C22 witness: f was registered first, then g; then f was registered again
\* (the wrapper of f was returned after the wrapper of g), and analyze listed
\* the entry of f before the entry of g.
C22_Witness ==
    /\ out.op = "analyze"
    /\ Listed(out.log) = <<"m.f", "m.g">>
    /\ Len(wrappers) = 2
    /\ get_unique_func_name(wrappers[1]) = "m.g"
    /\ get_unique_func_name(wrappers[2]) = "m.f"


(***************************************************************************)
(* Properties of the profiler.                                             *)
(***************************************************************************)
\* C23: the profiler is bracketed by the profile-wrapped calls: it is enabled
\* while control is inside a profile-wrapped call and disabled while control
\* is outside all of them, also with nested calls and calls whose function
\* raises.
C23_ProfilerBracketsCalls == profiler.active <=> stack # <<>>


(***************************************************************************)
(* Properties of register and register_decorator.                          *)
(***************************************************************************)
\* C24: in both classes, register(func_name, func, function_map) inserts
\* func under func_name when func_name is absent from function_map and leaves
\* function_map unchanged when func_name is present.
C24_RegisterInsertsOnlyIfAbsent ==
    out.op = "register" =>
        IF dict_has(out.before, StrKey(out.name))
        THEN function_map = out.before
        ELSE function_map = Append(out.before, [key |-> StrKey(out.name), value |-> out.func])

\* custom[name]
dict_get(d, key) == d[CHOOSE k \in DOMAIN d : d[k].key = key].value

\* C25: in both classes, register_decorator(func) returns False the first
\* time a name is registered and True afterwards, and custom[name] is the
\* first function registered under the name.
C25_FirstDecoratorKept ==
    [][out'.op = "register_decorator" /\ out' # out =>
        LET name == StrKey(get_unique_func_name(out'.func))
            present == dict_has(custom[out'.cls], name)
        IN  /\ out'.ret = present
            /\ dict_has(custom'[out'.cls], name)
            /\ dict_get(custom'[out'.cls], name)
                 = IF present THEN dict_get(custom[out'.cls], name) ELSE out'.func]_vars


(***************************************************************************)
(* Properties of the call record of the standalone trace.                  *)
(***************************************************************************)
\* The value a parameter has in a call: the positional argument, the keyword
\* argument, or the parameter's own declared default
InEffect(p, args, kwargs, dflt) ==
    IF ParamIndex(p) <= Len(args) THEN args[ParamIndex(p)]
    ELSE IF p \in DOMAIN kwargs THEN kwargs[p]
    ELSE dflt[p]

\* C26: the call record of the standalone trace shows, for every declared
\* parameter, the value in effect in the call: the positional argument, the
\* keyword argument or that parameter's own declared default, for every
\* combination of supplied and unsupplied parameters.
C26_RecordShowsValuesInEffect ==
    pout.op = "trace" =>
        LET record == pout.log[1].record
        IN  /\ Len(record) = Len(Params)
            /\ \A i \in DOMAIN Params :
                  /\ record[i].name = Params[i]
                  /\ record[i].value
                       = InEffect(Params[i], pout.args, pout.kwargs, pout.declared)


(***************************************************************************)
(* Properties of the wrapping policies that do not register.               *)
(***************************************************************************)
\* A wrapper made of profile layers only
ProfileOnly(w) == w.layers # <<>> /\ \A k \in DOMAIN w.layers : w.layers[k] = "profile"

\* A step of run_before, fire_if or profile: the decorator is applied, or a
\* wrapper it made is called
UnregisteredStep ==
    \/ rout' # rout
    \/ fout' # fout
    \/ out'.op = "profile" /\ wrappers' # wrappers
    \/ \E i \in DOMAIN calls : calls'[i] > calls[i] /\ ProfileOnly(wrappers[i])

\* C27: applying run_before, fire_if or profile, and calling the wrappers they
\* return, leaves functions, custom and time_dict as they were.
C27_NoRegistryEffect ==
    [][UnregisteredStep => UNCHANGED <<functions, custom, time_dict>>]_vars

C27_Witness ==
    /\ functions # <<>>
    /\ custom["Pojang"] # <<>>
    /\ rout.op = "call"
    /\ fout.op = "call"
    /\ out.op = "call"
    /\ ProfileOnly(wrappers[out.wrapper])


(***************************************************************************)
(* Properties of before.                                                   *)
(***************************************************************************)
\* C28: before(func) completes without raising, func's identity is registered
\* after it (it is added if it was absent), and it returns a wrapper of func.
C28_BeforeRegistersAndReturns ==
    out.op = "before" =>
        /\ out.err = "none"
        /\ out.name \in Names(functions)
        /\ out.ret # <<>>
        /\ out.ret[1].base = out.func.base


(***************************************************************************)
(* Properties of fire_if without a predicate.                              *)
(***************************************************************************)
\* C29: with the default predicate, a call of the wrapped function returns
\* func's output without raising, and the events are fired, each once and in
\* order, exactly when the output is truthy.
C29_DefaultPredicateFiresOnTruthyOutput ==
    (fout.op \in {"call", "raise"} /\ fwrapped[1].predicate = DefaultPredicate) =>
        LET events == fwrapped[1].events_to_fire
            output == func_call(fout.args, fout.kwargs)
        IN  /\ fout.op = "call"
            /\ fout.ret = output
            /\ fout.fired = IF output # 0
                            THEN [k \in DOMAIN events |->
                                     [event |-> events[k], args |-> <<output>> \o fout.args,
                                      kwargs |-> fout.kwargs]]
                            ELSE <<>>


(***************************************************************************)
(* Properties of TimeComputer.                                             *)
(***************************************************************************)
\* C30: every elapsed time a TimeComputer accumulates is the time from the
\* enter of the block that exits to that exit, also when blocks of the same
\* instance are nested; there is one accumulated measurement per exit, and
\* outside every block run_count is the number of exits.
C30_ElapsedFromMatchingEnter ==
    /\ tc.accumulated_time = tc.measured
    /\ tc.open = <<>> => tc.run_count = Len(tc.accumulated_time)

====
